---- MODULE Spec2Model ----
(***************************************************************************)
(* A model of ethocounter.py: the command-line set-up, the count of the    *)
(* existing observation files, the curses key loop of main(), the final    *)
(* notification, the summary sums and the two CSV files.                   *)
(*                                                                         *)
(* Strings of the program (keys returned by getkey, file names, the        *)
(* observation_time argument) are sequences of one-character strings, so   *)
(* that regular expressions, startswith and zfill are computed character   *)
(* by character.  Times are integers in milliseconds.                      *)
(***************************************************************************)
EXTENDS Integers, Sequences, FiniteSets, TLC

VARIABLES
    pc,                  \* position of the script
    observation_time,    \* args.observation_time (raw argument, then seconds)
    argv_time,           \* history: --observation_time as given on the command line
    base_name,           \* args.base_name
    padding,             \* args.padding
    files,               \* names of the files in args.output_dir
    observation_count,   \* module global observation_count
    OBSERVATION_TIME,    \* module global OBSERVATION_TIME
    strokes,             \* module global strokes: dict millis -> label
    stroke_summary,      \* module global stroke_summary: defaultdict(list)
    stroke_summary_sums, \* module global stroke_summary_sums
    key,                 \* main(): local key
    stroke,              \* main(): local stroke (start loop)
    starttime,           \* main(): local starttime, in ms
    millis,              \* main(): local millis
    now,                 \* the wall clock time.time(), in ms
    polled,              \* history: how the last call of getkey() ended
    flashed,             \* number of calls of flashing()
    written,             \* names of the files written by write_csv, in order
    overwritten,         \* history: names write_csv wrote over an existing file
    runs,                \* number of invocations of the script so far
    trace,               \* history: the key presses main() consumed, with their elapsed ms
    monotone,            \* history: the clock never went backwards
    tampered             \* history: somebody else changed the observation files

vars == <<pc, observation_time, argv_time, base_name, padding, files,
          observation_count, OBSERVATION_TIME, strokes, stroke_summary, stroke_summary_sums, key,
          stroke, starttime, millis, now, polled, flashed, written, overwritten,
          runs, trace, monotone, tampered>>

configVars == <<observation_time, argv_time, base_name, padding>>
dirVars == <<files, written, overwritten, runs, tampered>>
captureVars == <<strokes, stroke_summary, key, stroke, starttime, millis, now,
                 polled, trace, monotone>>

-----------------------------------------------------------------------------
(* Bounds of the model *)

\* the clock advances in steps of TickMs milliseconds
TickMs == 500
\* greatest elapsed time explored, in clock steps
MaxTicks == 8
\* greatest number of key presses one run of main() consumes (start key included)
MaxKeys == 3
\* greatest number of key presses of a run in which every key is valid
MaxValidKeys == 6
\* greatest number of invocations of the script in one directory
MaxRuns == 3

-----------------------------------------------------------------------------
(* Characters and strings *)

Lower == {"a","b","c","d","e","f","g","h","i","j","k","l","m",
          "n","o","p","q","r","s","t","u","v","w","x","y","z"}
Upper == {"A","B","C","D","E","F","G","H","I","J","K","L","M",
          "N","O","P","Q","R","S","T","U","V","W","X","Y","Z"}
DigitSeq == <<"0","1","2","3","4","5","6","7","8","9">>
Digit == {DigitSeq[i] : i \in 1..10}

\* the character class [A-Za-z0-9]
Alnum == Lower \cup Upper \cup Digit

\* Python values of args.observation_time: None, a str, an int
None == [kind |-> "None"]
StrVal(s) == [kind |-> "str", val |-> s]
IntVal(n) == [kind |-> "int", val |-> n]

\* str.startswith
StartsWith(s, p) == Len(s) >= Len(p) /\ SubSeq(s, 1, Len(p)) = p
\* str.endswith
EndsWith(s, p) == Len(s) >= Len(p) /\ SubSeq(s, Len(s) - Len(p) + 1, Len(s)) = p

\* value of a digit character
DigitVal(c) == CHOOSE i \in 0..9 : DigitSeq[i + 1] = c

RECURSIVE IntOfDigits(_)
\* int() of a string of decimal digits
IntOfDigits(s) ==
    IF s = <<>> THEN 0
    ELSE 10 * IntOfDigits(SubSeq(s, 1, Len(s) - 1)) + DigitVal(s[Len(s)])

RECURSIVE StrOfNat(_)
\* str() of a natural number
StrOfNat(n) ==
    IF n < 10 THEN <<DigitSeq[n + 1]>>
    ELSE StrOfNat(n \div 10) \o <<DigitSeq[(n % 10) + 1]>>

RECURSIVE zfill(_, _)
\* str.zfill
zfill(s, width) == IF Len(s) >= width THEN s ELSE zfill(<<"0">> \o s, width)

RECURSIVE SumSeq(_)
\* sum() of a list
SumSeq(s) == IF s = <<>> THEN 0 ELSE s[1] + SumSeq(Tail(s))

\* a variant of d[k] = v: d.setdefault(k, v), the value of a key that exists is kept
DictSet_KeepFirst(d, k, v) ==
    [x \in DOMAIN d \cup {k} |-> IF x \in DOMAIN d THEN d[x] ELSE v]

\* d[k] = v of a dict
DictSet(d, k, v) == [x \in DOMAIN d \cup {k} |-> IF x = k THEN v ELSE d[x]]
\* a slip in d[k].append(v): the list replaced by [v]
DictAppend_Replace(d, k, v) ==
    [x \in DOMAIN d \cup {k} |-> IF x = k THEN <<v>> ELSE d[x]]

\* d[k].append(v) of a defaultdict(list)
DictAppend(d, k, v) ==
    [x \in DOMAIN d \cup {k} |->
        IF x = k THEN (IF k \in DOMAIN d THEN Append(d[k], v) ELSE <<v>>)
        ELSE d[x]]
\* the empty dict
EmptyDict == [x \in {} |-> 0]

-----------------------------------------------------------------------------
(* Command line: parse_time and the module's top level, lines 63-124 *)

Str_0 == <<"0">>
Str_hms3 == <<"0","0",":","0","0",":","0","3">>
Str_bad == <<"1",":","3","0">>
Str_empty == <<>>

Str_3 == <<"3">>
Str_minus1 == <<"-","1">>
Str_hms030 == <<"0","0",":","0","0",":","0","3","0">>
Str_hms3_blank == <<"0","0",":","0","0",":","0","3"," ">>
Str_hms3_more == <<"0","0",":","0","0",":","0","3",":","0","0">>

\* the values of --observation_time the model starts from (None: not given)
ObsArgs == {None} \cup {StrVal(s) : s \in {Str_0, Str_hms3, Str_bad, Str_empty}}

AllDigits(s) == \A i \in 1..Len(s) : s[i] \in Digit

\* re.match(r"\d{2}:\d{2}:\d{2}", s): a match at the start of s
MatchHMS(s) ==
    /\ Len(s) >= 8
    /\ \A i \in {1, 2, 4, 5, 7, 8} : s[i] \in Digit
    /\ s[3] = ":" /\ s[6] = ":"

RECURSIVE Split(_, _)
\* str.split(sep) for a one-character separator
Split(s, sep) ==
    IF \A i \in 1..Len(s) : s[i] # sep THEN <<s>>
    ELSE LET i == CHOOSE j \in 1..Len(s) :
                      s[j] = sep /\ \A k \in 1..(j - 1) : s[k] # sep
         IN <<SubSeq(s, 1, i - 1)>> \o Split(SubSeq(s, i + 1, Len(s)), sep)

RECURSIVE Strip(_)
\* str.strip() as int() applies it: blanks at both ends are dropped
Strip(s) ==
    IF s # <<>> /\ s[1] = " " THEN Strip(Tail(s))
    ELSE IF s # <<>> /\ s[Len(s)] = " " THEN Strip(SubSeq(s, 1, Len(s) - 1))
    ELSE s

\* int(s) succeeds (decimal digits, blanks around them allowed)
IntParses(s) == Strip(s) # <<>> /\ AllDigits(Strip(s))

\* str.isdigit
IsDigit(s) == s # <<>> /\ AllDigits(s)

\* parse_time: [ok |-> TRUE, val |-> seconds], or [ok |-> FALSE] for ValueError
parse_time(time_str) ==
    IF MatchHMS(time_str)
    THEN LET parts == Split(time_str, ":")
         IN IF Len(parts) = 3 /\ \A i \in 1..3 : IntParses(parts[i])
            THEN [ok |-> TRUE,
                  val |-> IntOfDigits(Strip(parts[1])) * 3600
                          + IntOfDigits(Strip(parts[2])) * 60
                          + IntOfDigits(Strip(parts[3]))]
            ELSE [ok |-> FALSE]
    ELSE IF IsDigit(time_str)
    THEN [ok |-> TRUE, val |-> IntOfDigits(time_str)]
    ELSE [ok |-> FALSE]

\* truth value of args.observation_time: None, "" and 0 are false
Truthy(v) ==
    CASE v.kind = "None" -> FALSE
      [] v.kind = "str" -> v.val # <<>>
      [] v.kind = "int" -> v.val # 0

\* lines 105-110: convert observation_time, parser.error on ValueError
ParseObservationTime ==
    /\ pc = "parse"
    /\ IF Truthy(observation_time)
       THEN LET r == parse_time(observation_time.val)
            IN IF r.ok
               THEN observation_time' = IntVal(r.val) /\ pc' = "count"
               ELSE observation_time' = observation_time /\ pc' = "usage_error"
       ELSE observation_time' = observation_time /\ pc' = "count"
    /\ UNCHANGED <<argv_time, base_name, padding, observation_count,
                   OBSERVATION_TIME, stroke_summary_sums, flashed>>
    /\ UNCHANGED dirVars
    /\ UNCHANGED captureVars

-----------------------------------------------------------------------------
(* Output directory: lines 112-118 and 271-281 *)

Str_run == <<"r","u","n">>
Str_run2 == <<"r","u","n","2">>
Str_ethoc == <<"_","e","t","h","o","c">>
Str_summary == <<"_","s","u","m","m","a","r","y">>
Str_csv == <<".","c","s","v">>

\* the values of --base_name and --padding of the invocations in one directory
BaseNames == {Str_run, Str_run2}
Paddings == {1, 4}

\* Path.glob("*_ethoc.csv"): the name ends with _ethoc.csv
GlobEthoc(name) == EndsWith(name, Str_ethoc \o Str_csv)
\* Path.stem of a name that ends with .csv
Stem(name) == SubSeq(name, 1, Len(name) - Len(Str_csv))

\* a slip in line 117: the stem compared with base_name + "_ethoc", no prefix test
CountObservations_ExactStem(dir, base) ==
    Cardinality({f \in dir : GlobEthoc(f) /\ Stem(f) = base \o Str_ethoc})

\* lines 114-118: the number of files *_ethoc.csv whose stem starts with base
CountObservations(dir, base) ==
    Cardinality({f \in dir : GlobEthoc(f) /\ StartsWith(Stem(f), base)})

\* line 272: base_file_name
BaseFileName(base, count, pad) == base \o <<"_">> \o zfill(StrOfNat(count), pad)
\* line 246: the file name write_csv builds
CsvName(base_file_name, suffix) == base_file_name \o suffix \o Str_csv

\* lines 112-118
CountFiles ==
    /\ pc = "count"
    /\ observation_count' = CountObservations(files, base_name)
    /\ pc' = "determine"
    /\ UNCHANGED <<OBSERVATION_TIME, stroke_summary_sums, flashed>>
    /\ UNCHANGED configVars
    /\ UNCHANGED dirVars
    /\ UNCHANGED captureVars

\* lines 120-124: OBSERVATION_TIME; int("") raises ValueError, which nothing catches
DetermineObservationTime ==
    /\ pc = "determine"
    /\ CASE observation_time.kind = "None" ->
                OBSERVATION_TIME' = 0 /\ pc' = "start"
         [] observation_time.kind = "int" ->
                OBSERVATION_TIME' = observation_time.val /\ pc' = "start"
         [] observation_time.kind = "str" ->
                IF IntParses(observation_time.val)
                THEN OBSERVATION_TIME' = IntOfDigits(Strip(observation_time.val))
                     /\ pc' = "start"
                ELSE OBSERVATION_TIME' = OBSERVATION_TIME /\ pc' = "crashed"
    /\ UNCHANGED <<observation_count, stroke_summary_sums, flashed>>
    /\ UNCHANGED configVars
    /\ UNCHANGED dirVars
    /\ UNCHANGED captureVars

-----------------------------------------------------------------------------
(* main(): lines 132-220 *)

Key_a == <<"a">>
Key_b == <<"b">>
Key_p == <<"p">>
Key_P == <<"P">>
Key_bang == <<"!">>
Key_UP == <<"K","E","Y","_","U","P">>

\* what getkey() returns in the model: letters, the stop key, a punctuation
\* character and the name curses gives the cursor-up key
InputKeys == {Key_a, Key_b, Key_p, Key_P, Key_bang, Key_UP}
\* the keys of a run in which every key is a single letter
ValidKeys == {Key_a, Key_b, Key_P}

\* re.match("(^[A-Za-z0-9])", s): the string starts with a letter or a digit
Match(s) == Len(s) >= 1 /\ s[1] \in Alnum

\* line 191: int(round((presstime - starttime) * 1000)), the clock being in ms
Elapsed(presstime, start) == presstime - start

\* lines 192-195: seconds = str(millis)[:-3], "0" when that is empty (millis >= 0)
SecondsStr(m) ==
    LET str == StrOfNat(m)
    IN IF Len(str) <= 3 THEN <<"0">> ELSE SubSeq(str, 1, Len(str) - 3)

\* line 199
ManualExit == <<"End of recording - manual exit">>
\* line 210
TimeoutLabel(seconds) ==
    <<"End of recording - time out after ">> \o seconds \o <<" seconds">>

\* a slip in lines 208-210: the row keyed by seconds, not by millis
LogTimeout_BySeconds(log, m) ==
    DictSet(log, IntOfDigits(SecondsStr(m)), TimeoutLabel(SecondsStr(m)))

\* lines 208-210: strokes[millis] = the time-out label
LogTimeout(log, m) == DictSet(log, m, TimeoutLabel(SecondsStr(m)))

\* a slip in line 198: the stop key compared without regard to case
IsStopKey_AnyCase(k) == k \in {Key_P, Key_p}

\* line 198: the stop key
IsStopKey(k) == k = Key_P

\* a slip in line 203: > for >=
TimedOut_Strict(m) ==
    OBSERVATION_TIME # 0 /\ IntOfDigits(SecondsStr(m)) > OBSERVATION_TIME

\* a slip in line 202: the test OBSERVATION_TIME != 0 left out
TimedOut_NoZeroTest(m) == IntOfDigits(SecondsStr(m)) >= OBSERVATION_TIME

\* lines 202-203: the ending condition
TimedOut(m) ==
    OBSERVATION_TIME # 0 /\ IntOfDigits(SecondsStr(m)) >= OBSERVATION_TIME

\* a slip in line 206: the time counted too much, not negated
Correction_NotNegated(m) == m - OBSERVATION_TIME * 1000

\* a slip in line 206: the observation time taken in seconds, not times 1000
Correction_InSeconds(m) == (m - OBSERVATION_TIME) * (-1)

\* a slip in line 206: the observation time left out
Correction_NoDuration(m) == m * (-1)

\* line 206: the time counted too much, negated
Correction(m) == (m - OBSERVATION_TIME * 1000) * (-1)

\* lines 175-181: the key kept after the check of the pressed one
KeptKey(pressed, oldkey) == IF Match(pressed) THEN pressed ELSE oldkey

\* lines 157-168, getkey raises curses.error: no key is waiting
StartNoKey ==
    /\ pc = "start"
    /\ polled' = "curses.error"
    /\ UNCHANGED <<pc, observation_count, OBSERVATION_TIME, stroke_summary_sums,
                   flashed, strokes, stroke_summary, key, stroke, starttime, millis,
                   now, trace, monotone>>
    /\ UNCHANGED configVars
    /\ UNCHANGED dirVars

\* lines 159-166, the key does not match: a notice, and the loop goes on
StartRejected(pressed) ==
    /\ pc = "start"
    /\ ~Match(pressed)
    /\ stroke' = pressed
    /\ polled' = "key"
    /\ UNCHANGED <<pc, observation_count, OBSERVATION_TIME, stroke_summary_sums,
                   flashed, strokes, stroke_summary, key, starttime, millis, now,
                   trace, monotone>>
    /\ UNCHANGED configVars
    /\ UNCHANGED dirVars

\* lines 159-164 and 170-171, the key matches: leave the start loop
StartKey(pressed) ==
    /\ pc = "start"
    /\ Match(pressed)
    /\ stroke' = pressed
    /\ polled' = "key"
    /\ starttime' = now
    /\ millis' = 0
    /\ trace' = <<[ms |-> 0, key |-> pressed]>>
    /\ pc' = "recording"
    /\ UNCHANGED <<observation_count, OBSERVATION_TIME, stroke_summary_sums,
                   flashed, strokes, stroke_summary, key, now, monotone>>
    /\ UNCHANGED configVars
    /\ UNCHANGED dirVars

\* a variant of lines 176 and 219: getkey gives the empty string when no key is
\* waiting, and it is assigned to key
RecordNoKey_EmptyString ==
    /\ pc = "recording"
    /\ polled' = "curses.error"
    /\ key' = <<>>
    /\ UNCHANGED <<pc, observation_count, OBSERVATION_TIME, stroke_summary_sums,
                   flashed, strokes, stroke_summary, stroke, starttime, millis,
                   now, trace, monotone>>
    /\ UNCHANGED configVars
    /\ UNCHANGED dirVars

\* lines 174-176 and 219-220, getkey raises curses.error: no key is waiting
RecordNoKey ==
    /\ pc = "recording"
    /\ polled' = "curses.error"
    /\ UNCHANGED <<pc, observation_count, OBSERVATION_TIME, stroke_summary_sums,
                   flashed, strokes, stroke_summary, key, stroke, starttime, millis,
                   now, trace, monotone>>
    /\ UNCHANGED configVars
    /\ UNCHANGED dirVars

\* lines 175-218: one pass of the recording loop with a key from getkey
RecordPass(pressed) ==
    /\ pc = "recording"
    /\ LET oldkey == key
           newkey == KeptKey(pressed, oldkey)
           oldtime == millis
           m == Elapsed(now, starttime)
           summary1 == DictAppend(stroke_summary, oldkey, m - oldtime)
       IN /\ key' = newkey
          /\ millis' = m
          /\ polled' = "key"
          /\ trace' = Append(trace, [ms |-> m, key |-> pressed])
          /\ IF IsStopKey(newkey)
             THEN /\ stroke_summary' = summary1
                  /\ strokes' = DictSet(strokes, m, ManualExit)
                  /\ pc' = "flash"
             ELSE IF TimedOut(m)
             THEN /\ stroke_summary' = DictAppend(summary1, oldkey, Correction(m))
                  /\ strokes' = LogTimeout(strokes, m)
                  /\ pc' = "flash"
             ELSE /\ stroke_summary' = summary1
                  /\ strokes' = DictSet(strokes, m, newkey)
                  /\ pc' = "recording"
    /\ UNCHANGED <<observation_count, OBSERVATION_TIME, stroke_summary_sums, flashed,
                   stroke, starttime, now, monotone>>
    /\ UNCHANGED configVars
    /\ UNCHANGED dirVars

\* a pass of the recording loop, any key of the model
RecordKey(pressed) == Len(trace) < MaxKeys /\ RecordPass(pressed)

\* a pass of the recording loop, the clock having advanced since the last key
RecordLaterKey(pressed) ==
    /\ Len(trace) < MaxValidKeys
    /\ Elapsed(now, starttime) > millis
    /\ RecordPass(pressed)

\* the clock advances while main() records
Tick ==
    /\ pc = "recording"
    /\ now + TickMs - starttime <= MaxTicks * TickMs
    /\ now' = now + TickMs
    /\ UNCHANGED <<pc, observation_count, OBSERVATION_TIME, stroke_summary_sums,
                   flashed, strokes, stroke_summary, key, stroke, starttime, millis,
                   polled, trace, monotone>>
    /\ UNCHANGED configVars
    /\ UNCHANGED dirVars

\* time.time() is the wall clock: it is set back once, not before the start
ClockBack ==
    /\ pc = "recording"
    /\ monotone
    /\ now - TickMs >= starttime
    /\ now' = now - TickMs
    /\ monotone' = FALSE
    /\ UNCHANGED <<pc, observation_count, OBSERVATION_TIME, stroke_summary_sums,
                   flashed, strokes, stroke_summary, key, stroke, starttime, millis,
                   polled, trace>>
    /\ UNCHANGED configVars
    /\ UNCHANGED dirVars

-----------------------------------------------------------------------------
(* After main(): lines 255-281 *)

\* a variant of line 259: flashing() called only when the time ran out
Flashing_OnlyOnTimeout ==
    /\ pc = "flash"
    /\ flashed' = IF \E t \in DOMAIN strokes :
                        Len(strokes[t]) >= 3
                        /\ strokes[t][1] = "End of recording - time out after "
                  THEN flashed + 1 ELSE flashed
    /\ pc' = "sum"
    /\ UNCHANGED <<observation_count, OBSERVATION_TIME, stroke_summary_sums>>
    /\ UNCHANGED configVars
    /\ UNCHANGED dirVars
    /\ UNCHANGED captureVars

\* lines 223-228 and 259: flashing(), called whenever main() has returned
Flashing ==
    /\ pc = "flash"
    /\ flashed' = flashed + 1
    /\ pc' = "sum"
    /\ UNCHANGED <<observation_count, OBSERVATION_TIME, stroke_summary_sums>>
    /\ UNCHANGED configVars
    /\ UNCHANGED dirVars
    /\ UNCHANGED captureVars

\* a slip in line 269: the entry of the empty key kept
Sums_KeepEmpty(summary) == [k \in DOMAIN summary |-> SumSeq(summary[k])]

\* lines 263-269: the sum of every list, the entry of the empty key dropped
Sums(summary) == [k \in DOMAIN summary \ {<<>>} |-> SumSeq(summary[k])]

\* lines 262-269
SumUp ==
    /\ pc = "sum"
    /\ stroke_summary_sums' = Sums(stroke_summary)
    /\ pc' = "write_ethoc"
    /\ UNCHANGED <<observation_count, OBSERVATION_TIME, flashed>>
    /\ UNCHANGED configVars
    /\ UNCHANGED dirVars
    /\ UNCHANGED captureVars

\* lines 246-252: write_csv creates the file or writes over it
WriteCsv(suffix, next) ==
    LET name == CsvName(BaseFileName(base_name, observation_count, padding), suffix)
    IN /\ files' = files \cup {name}
       /\ written' = Append(written, name)
       /\ overwritten' = overwritten \cup ({name} \cap files)
       /\ pc' = next
       /\ UNCHANGED <<observation_count, OBSERVATION_TIME, stroke_summary_sums,
                      flashed, runs, tampered>>
       /\ UNCHANGED configVars
       /\ UNCHANGED captureVars

\* a slip in line 274: the suffix of the summary file
WriteEthoc_SummarySuffix == pc = "write_ethoc" /\ WriteCsv(Str_summary, "write_summary")

\* line 274
WriteEthoc == pc = "write_ethoc" /\ WriteCsv(Str_ethoc, "write_summary")
\* lines 275-281
WriteSummary == pc = "write_summary" /\ WriteCsv(Str_summary, "exit")

-----------------------------------------------------------------------------
(* One invocation of the script *)

\* lines 127-128 and 143: the state main() starts from
InitCapture ==
    /\ strokes = EmptyDict
    /\ stroke_summary = EmptyDict
    /\ key = <<>>
    /\ stroke = <<>>
    /\ starttime = 0
    /\ millis = 0
    /\ now = 0
    /\ polled = "none"
    /\ trace = <<>>
    /\ monotone = TRUE

Init ==
    /\ pc = "parse"
    /\ observation_time \in ObsArgs
    /\ argv_time = observation_time
    /\ base_name = Str_run
    /\ padding = 4
    /\ files = {}
    /\ observation_count = 0
    /\ OBSERVATION_TIME = 0
    /\ stroke_summary_sums = EmptyDict
    /\ flashed = 0
    /\ written = <<>>
    /\ overwritten = {}
    /\ runs = 1
    /\ tampered = FALSE
    /\ InitCapture

Next ==
    \/ ParseObservationTime
    \/ CountFiles
    \/ DetermineObservationTime
    \/ StartNoKey
    \/ \E pressed \in InputKeys : StartRejected(pressed)
    \/ \E pressed \in InputKeys : StartKey(pressed)
    \/ RecordNoKey
    \/ \E pressed \in InputKeys : RecordKey(pressed)
    \/ Tick
    \/ Flashing
    \/ SumUp
    \/ WriteEthoc
    \/ WriteSummary

Spec == Init /\ [][Next]_vars

\* what the script does by itself, and the passing of time: the steps that go on
\* whether or not the observer presses a key
ProgramStep ==
    \/ ParseObservationTime
    \/ CountFiles
    \/ DetermineObservationTime
    \/ StartNoKey
    \/ RecordNoKey
    \/ Tick
    \/ Flashing
    \/ SumUp
    \/ WriteEthoc
    \/ WriteSummary

\* the script keeps running (its loops keep polling); no key press is promised
FairSpec == Init /\ [][Next]_vars /\ WF_vars(ProgramStep)

-----------------------------------------------------------------------------
(* One invocation under a wall clock that is set back *)

WallKeys == {Key_a, Key_b, Key_P, Key_bang}

InitWall ==
    /\ Init
    /\ observation_time \in {None, StrVal(Str_0), StrVal(Str_hms3)}

NextWall ==
    \/ ParseObservationTime
    \/ CountFiles
    \/ DetermineObservationTime
    \/ \E pressed \in WallKeys : StartRejected(pressed)
    \/ \E pressed \in WallKeys : StartKey(pressed)
    \/ \E pressed \in WallKeys : RecordKey(pressed)
    \/ Tick
    \/ ClockBack
    \/ Flashing
    \/ SumUp
    \/ WriteEthoc
    \/ WriteSummary

WallClockSpec == InitWall /\ [][NextWall]_vars

-----------------------------------------------------------------------------
(* One invocation in which every key is a single letter and the clock has  *)
(* advanced between two key presses                                        *)

InitValid ==
    /\ Init
    /\ observation_time \in {None, StrVal(Str_hms3)}

NextValid ==
    \/ ParseObservationTime
    \/ CountFiles
    \/ DetermineObservationTime
    \/ \E pressed \in ValidKeys : StartKey(pressed)
    \/ \E pressed \in ValidKeys : RecordLaterKey(pressed)
    \/ Tick
    \/ Flashing
    \/ SumUp
    \/ WriteEthoc
    \/ WriteSummary

ValidSpec == InitValid /\ [][NextValid]_vars

-----------------------------------------------------------------------------
(* Invocations one after the other in the same output directory *)

File_run_ethoc == Str_run \o Str_ethoc \o Str_csv
File_run_0001_ethoc == Str_run \o <<"_","0","0","0","1">> \o Str_ethoc \o Str_csv

\* the files somebody else puts into the directory
EnvFiles == {File_run_ethoc, File_run_0001_ethoc}

\* the name has the form of an output of the script: <base>_<digits>_ethoc.csv
\* or <base>_<digits>_summary.csv
OutputForm(name) ==
    \E suffix \in {Str_ethoc, Str_summary} :
        /\ EndsWith(name, suffix \o Str_csv)
        /\ LET body == SubSeq(name, 1, Len(name) - Len(suffix \o Str_csv))
           IN \E i \in 1..(Len(body) - 1) :
                  /\ body[i] = "_"
                  /\ AllDigits(SubSeq(body, i + 1, Len(body)))

\* the script is started again: a new process, the directory as it was left
Launch(base) ==
    /\ pc = "exit"
    /\ runs < MaxRuns
    /\ runs' = runs + 1
    /\ pc' = "parse"
    /\ observation_time' = None
    /\ argv_time' = None
    /\ base_name' = base
    /\ observation_count' = 0
    /\ OBSERVATION_TIME' = 0
    /\ stroke_summary_sums' = EmptyDict
    /\ flashed' = 0
    /\ written' = <<>>
    /\ strokes' = EmptyDict
    /\ stroke_summary' = EmptyDict
    /\ key' = <<>>
    /\ stroke' = <<>>
    /\ starttime' = 0
    /\ millis' = 0
    /\ now' = 0
    /\ polled' = "none"
    /\ trace' = <<>>
    /\ monotone' = TRUE
    /\ UNCHANGED <<padding, files, overwritten, tampered>>

\* between two invocations somebody else creates a file
EnvAdd(name) ==
    /\ pc = "exit"
    /\ name \notin files
    /\ files' = files \cup {name}
    /\ tampered' = (tampered \/ OutputForm(name))
    /\ UNCHANGED <<pc, observation_count, OBSERVATION_TIME, stroke_summary_sums,
                   flashed, written, overwritten, runs>>
    /\ UNCHANGED configVars
    /\ UNCHANGED captureVars

\* between two invocations somebody removes a file
EnvRemove(name) ==
    /\ pc = "exit"
    /\ name \in files
    /\ files' = files \ {name}
    /\ tampered' = (tampered \/ GlobEthoc(name))
    /\ UNCHANGED <<pc, observation_count, OBSERVATION_TIME, stroke_summary_sums,
                   flashed, written, overwritten, runs>>
    /\ UNCHANGED configVars
    /\ UNCHANGED captureVars

InitDir ==
    /\ pc = "exit"
    /\ observation_time = None
    /\ argv_time = None
    /\ base_name = Str_run
    /\ padding \in Paddings
    /\ files = {}
    /\ observation_count = 0
    /\ OBSERVATION_TIME = 0
    /\ stroke_summary_sums = EmptyDict
    /\ flashed = 0
    /\ written = <<>>
    /\ overwritten = {}
    /\ runs = 0
    /\ tampered = FALSE
    /\ InitCapture

\* every session is started and stopped at once with the stop key
NextDir ==
    \/ \E base \in BaseNames : Launch(base)
    \/ \E name \in EnvFiles : EnvAdd(name)
    \/ \E name \in files : EnvRemove(name)
    \/ ParseObservationTime
    \/ CountFiles
    \/ DetermineObservationTime
    \/ StartKey(Key_P)
    \/ RecordKey(Key_P)
    \/ Flashing
    \/ SumUp
    \/ WriteEthoc
    \/ WriteSummary

DirSpec == InitDir /\ [][NextDir]_vars

-----------------------------------------------------------------------------
(* One invocation, the command line in more variety and the keys in less *)

\* the values of --observation_time of this specification
ConfigArgs ==
    ObsArgs \cup {StrVal(s) : s \in {Str_3, Str_minus1, Str_hms030, Str_hms3_blank,
                                    Str_hms3_more}}

ConfigKeys == {Key_a, Key_P}

InitConfig ==
    /\ pc = "parse"
    /\ observation_time \in ConfigArgs
    /\ argv_time = observation_time
    /\ base_name = Str_run
    /\ padding = 4
    /\ files = {}
    /\ observation_count = 0
    /\ OBSERVATION_TIME = 0
    /\ stroke_summary_sums = EmptyDict
    /\ flashed = 0
    /\ written = <<>>
    /\ overwritten = {}
    /\ runs = 1
    /\ tampered = FALSE
    /\ InitCapture

NextConfig ==
    \/ ParseObservationTime
    \/ CountFiles
    \/ DetermineObservationTime
    \/ \E pressed \in ConfigKeys : StartKey(pressed)
    \/ \E pressed \in ConfigKeys : RecordKey(pressed)
    \/ Tick
    \/ Flashing
    \/ SumUp
    \/ WriteEthoc
    \/ WriteSummary

ConfigSpec == InitConfig /\ [][NextConfig]_vars

-----------------------------------------------------------------------------
(* Vocabulary of the properties *)

\* main() has returned
Terminated == pc \in {"flash", "sum", "write_ethoc", "write_summary", "exit"}
\* the summary sums have been computed
Summed == pc \in {"write_ethoc", "write_summary", "exit"}
\* the last key press main() consumed
LastPress == trace[Len(trace)]
\* this step is a pass of the recording loop that consumed a key
KeyPolled == pc = "recording" /\ Len(trace') = Len(trace) + 1
\* the key and the elapsed time of the pass KeyPolled speaks of
PolledKey == trace'[Len(trace')].key
PolledMs == trace'[Len(trace')].ms
\* a single character of [A-Za-z0-9]
SingleAlnum(k) == Len(k) = 1 /\ k[1] \in Alnum
IsTimeoutLabel(label) ==
    Len(label) >= 3 /\ label[1] = "End of recording - time out after "
IsTerminalLabel(label) == label = ManualExit \/ IsTimeoutLabel(label)
\* the list stroke_summary holds for a key, empty when it holds none
DeltasOf(summary, k) == IF k \in DOMAIN summary THEN summary[k] ELSE <<>>
\* the summary changed by nothing but these deltas appended to the list of k
AppendedTo(k, deltas) ==
    /\ DOMAIN stroke_summary' = DOMAIN stroke_summary \cup {k}
    /\ stroke_summary'[k] = DeltasOf(stroke_summary, k) \o deltas
    /\ \A other \in DOMAIN stroke_summary \ {k} :
           stroke_summary'[other] = stroke_summary[other]
\* the event log changed by nothing but the row at ms set to label
RowSet(ms, label) ==
    /\ DOMAIN strokes' = DOMAIN strokes \cup {ms}
    /\ strokes'[ms] = label
    /\ \A t \in DOMAIN strokes \ {ms} : strokes'[t] = strokes[t]

-----------------------------------------------------------------------------
(* C1 *)

ManualStopScenario ==
    <<[ms |-> 0, key |-> Key_a], [ms |-> 1500, key |-> Key_b],
      [ms |-> 4000, key |-> Key_P]>>

\* C1: the key accepted as start trigger is the active key with elapsed time 0
\* when recording begins, it has an entry in the summary once a key followed it,
\* and the run 'a' at 0, 'b' at 1500, 'P' at 4000 without observation time gives the
\* event log {1500: b, 4000: manual exit} and the summary {a: 1500, b: 2500}.
C1_StartKeyIsActive ==
    /\ (pc = "recording" /\ Len(trace) = 1) => (key = trace[1].key /\ millis = 0)
    /\ (Summed /\ Len(trace) >= 2) => trace[1].key \in DOMAIN stroke_summary_sums
    /\ (Summed /\ OBSERVATION_TIME = 0 /\ trace = ManualStopScenario) =>
           /\ strokes = (1500 :> Key_b @@ 4000 :> ManualExit)
           /\ stroke_summary_sums = (Key_a :> 1500 @@ Key_b :> 2500)

\* What the code does with that run: the start key is never assigned to key, the
\* first interval goes to the empty key and is dropped from the summary.
C1_CodeBehaviour ==
    (Summed /\ OBSERVATION_TIME = 0 /\ trace = ManualStopScenario) =>
        /\ strokes = (1500 :> Key_b @@ 4000 :> ManualExit)
        /\ stroke_summary = (<<>> :> <<1500>> @@ Key_b :> <<2500>>)
        /\ stroke_summary_sums = (Key_b :> 2500)

\* the run of C1 is reached
C1_ScenarioReached == Summed /\ OBSERVATION_TIME = 0 /\ trace = ManualStopScenario

-----------------------------------------------------------------------------
(* C2 *)

\* C2: a pass of the recording loop whose key does not match [A-Za-z0-9] adds no
\* row to the event log, leaves key and millis as they were, and the key is no
\* key of the summary.
C2_InvalidKeyIgnored ==
    [][(KeyPolled /\ ~Match(PolledKey)) =>
          /\ strokes' = strokes
          /\ key' = key
          /\ millis' = millis
          /\ PolledKey \notin DOMAIN stroke_summary']_vars

-----------------------------------------------------------------------------
(* C3 *)

\* C3: with OBSERVATION_TIME = N > 0, a pass of the recording loop with a key other
\* than P at elapsed M, floor(M/1000) >= N, appends M - millis and then
\* -(M - N*1000) to the list of the key active before, which so gains N*1000 - millis;
\* the row M of the event log becomes the time-out label with floor(M/1000) seconds,
\* no other row changes, and main() returns.
C3_TimeoutTruncation ==
    [][(KeyPolled /\ OBSERVATION_TIME > 0 /\ PolledKey # Key_P
          /\ PolledMs \div 1000 >= OBSERVATION_TIME) =>
          /\ PolledMs = now - starttime
          /\ AppendedTo(key, <<PolledMs - millis,
                               -(PolledMs - OBSERVATION_TIME * 1000)>>)
          /\ SumSeq(stroke_summary'[key]) - SumSeq(DeltasOf(stroke_summary, key))
                 = OBSERVATION_TIME * 1000 - millis
          /\ RowSet(PolledMs, TimeoutLabel(StrOfNat(PolledMs \div 1000)))
          /\ pc' = "flash"]_vars

\* 'a' at 0, 'b' at 1500, 'b' at 4000 with an observation time of 3 seconds
C3_Witness ==
    /\ Terminated
    /\ OBSERVATION_TIME = 3
    /\ trace = <<[ms |-> 0, key |-> Key_a], [ms |-> 1500, key |-> Key_b],
                 [ms |-> 4000, key |-> Key_b]>>
    /\ stroke_summary[Key_b] = <<2500, -1000>>
    /\ strokes[4000] = TimeoutLabel(<<"4">>)

-----------------------------------------------------------------------------
(* C4 *)

\* C4: a pass of the recording loop with the key P at elapsed M appends M - millis,
\* and nothing else, to the list of the key active before, sets the row M of the
\* event log to the manual-exit label and makes main() return, whatever the
\* observation time; no row of the event log ever holds P; and p is an ordinary
\* key: unless the observation time is over, it is logged and recording goes on.
C4_ManualStop ==
    /\ [](\A t \in DOMAIN strokes : strokes[t] # Key_P)
    /\ [][(KeyPolled /\ PolledKey = Key_P) =>
             /\ AppendedTo(key, <<PolledMs - millis>>)
             /\ RowSet(PolledMs, ManualExit)
             /\ pc' = "flash"]_vars
    /\ [][(KeyPolled /\ PolledKey = Key_p
             /\ (OBSERVATION_TIME = 0 \/ PolledMs \div 1000 < OBSERVATION_TIME)) =>
             /\ RowSet(PolledMs, Key_p)
             /\ key' = Key_p
             /\ pc' = "recording"]_vars

\* P pressed half a second after an observation time of 3 seconds was over: the
\* list of the active key holds the whole interval and no correction
C4_Witness ==
    /\ Terminated
    /\ OBSERVATION_TIME = 3
    /\ trace = <<[ms |-> 0, key |-> Key_a], [ms |-> 500, key |-> Key_p],
                 [ms |-> 3500, key |-> Key_P]>>
    /\ strokes = (500 :> Key_p @@ 3500 :> ManualExit)
    /\ stroke_summary[Key_p] = <<3000>>

-----------------------------------------------------------------------------
(* C5 *)

TimeoutLogged == \E t \in DOMAIN strokes : IsTimeoutLabel(strokes[t])
ManualExitLogged == \E t \in DOMAIN strokes : strokes[t] = ManualExit

\* C5 as stated: the notification is given only in a run that ended by time-out.
C5_FlashOnlyOnTimeout == flashed > 0 => TimeoutLogged

\* C5 as amended: the notification is given exactly once in every run, after
\* main() has returned and before the sums are computed, whether the run ended by
\* time-out or by the stop key.
C5_FlashAfterEveryRun ==
    /\ pc \in {"sum", "write_ethoc", "write_summary", "exit"} =>
           (flashed = 1 /\ (TimeoutLogged \/ ManualExitLogged))
    /\ pc \in {"parse", "count", "determine", "start", "recording", "flash",
               "usage_error", "crashed"} => flashed = 0

\* a run ended with the stop key has given the notification
C5_Witness == pc = "exit" /\ flashed = 1 /\ ManualExitLogged /\ ~TimeoutLogged

-----------------------------------------------------------------------------
(* C6 *)

\* the observation time is set and over
TimeIsUp ==
    OBSERVATION_TIME > 0 /\ now - starttime >= OBSERVATION_TIME * 1000

\* C6 as stated: once the observation time is over, the recording stops and the
\* time-out label is logged, whether or not a key is pressed.
C6_EventuallyStops ==
    (pc = "recording" /\ TimeIsUp) ~> (Terminated /\ TimeoutLogged)

\* C6 as amended: with an observation time N > 0, the pass of the recording loop
\* that consumes a key at an elapsed time of N seconds or more ends the recording
\* (time-out label, or manual-exit label when the key is P), and nothing else ends
\* it: while no key is pressed, main() keeps polling.
C6_StopsAtNextKey ==
    /\ [][(KeyPolled /\ OBSERVATION_TIME > 0
             /\ PolledMs >= OBSERVATION_TIME * 1000) =>
             /\ pc' = "flash"
             /\ strokes'[PolledMs] =
                    IF PolledKey = Key_P THEN ManualExit
                    ELSE TimeoutLabel(StrOfNat(PolledMs \div 1000))]_vars
    /\ [][(pc = "recording" /\ pc' # "recording") => KeyPolled]_vars

\* a key that does not match, pressed a second after an observation time of 3
\* seconds was over and 2.5 seconds after the key before it, ended the recording
C6_Witness ==
    /\ Terminated
    /\ OBSERVATION_TIME = 3
    /\ Len(trace) = 3
    /\ trace[2].ms = 1500
    /\ LastPress = [ms |-> 4000, key |-> Key_bang]
    /\ TimeoutLogged

-----------------------------------------------------------------------------
(* C7 *)

\* --observation_time was not given, or was given as 0
ObsAbsentOrZero ==
    \/ observation_time.kind = "None"
    \/ (observation_time.kind = "int" /\ observation_time.val = 0)

RECURSIVE CountDeltas(_, _)
\* the number of deltas the lists of these keys hold
CountDeltas(summary, ks) ==
    IF ks = {} THEN 0
    ELSE LET k == CHOOSE x \in ks : TRUE
         IN Len(summary[k]) + CountDeltas(summary, ks \ {k})

\* C7: without observation time, or with 0, OBSERVATION_TIME is 0 and whatever the
\* keys and the clock: no time-out label is logged, every pass appends one delta
\* and no correction, main() returns only on the stop key P and logs the
\* manual-exit label.
C7_Unbounded ==
    (ObsAbsentOrZero /\ pc \in {"start", "recording", "flash", "sum", "write_ethoc",
                                "write_summary", "exit"}) =>
        /\ OBSERVATION_TIME = 0
        /\ ~TimeoutLogged
        /\ CountDeltas(stroke_summary, DOMAIN stroke_summary)
               = (IF trace = <<>> THEN 0 ELSE Len(trace) - 1)
        /\ Terminated =>
               (Len(trace) >= 2 /\ LastPress.key = Key_P /\ strokes[millis] = ManualExit)
        /\ pc = "recording" => \A i \in 2..Len(trace) : trace[i].key # Key_P

\* --observation_time 0: still recording at 4000 ms, after two keys and the clock
\* set back once
C7_Witness ==
    /\ pc = "recording"
    /\ observation_time.kind = "int"
    /\ OBSERVATION_TIME = 0
    /\ Len(trace) = 3
    /\ millis = 4000
    /\ ~monotone

-----------------------------------------------------------------------------
(* C8 *)

\* C8: only a single character of [A-Za-z0-9] is accepted: the start trigger is
\* one, every label of the event log that is no terminal label is one, and every
\* key of the summary is one.
C8_OnlySingleAlnum ==
    /\ trace # <<>> => SingleAlnum(trace[1].key)
    /\ \A t \in DOMAIN strokes :
           IsTerminalLabel(strokes[t]) \/ SingleAlnum(strokes[t])
    /\ \A k \in DOMAIN stroke_summary_sums : SingleAlnum(k)

-----------------------------------------------------------------------------
(* C9 *)

\* the passes of the recording loop that made k the active key: the last pass of a
\* finished run ended it and made no key active
PressesOf(k) == {i \in 2..(Len(trace) - 1) : trace[i].key = k}
\* the key that was active when the run ended
LastActiveKey == IF Len(trace) >= 3 THEN trace[Len(trace) - 1].key ELSE <<>>
\* the keys C9 speaks of
KeysButLast == {k \in ValidKeys : PressesOf(k) # {} /\ k # LastActiveKey}
FirstActiveMs(k) ==
    CHOOSE t \in {trace[i].ms : i \in PressesOf(k)} :
        \A u \in {trace[i].ms : i \in PressesOf(k)} : t <= u
LastActiveMs(k) ==
    CHOOSE t \in {trace[i + 1].ms : i \in PressesOf(k)} :
        \A u \in {trace[i + 1].ms : i \in PressesOf(k)} : t >= u

RECURSIVE ActiveTime(_)
\* the total length of the periods that begin with the passes is
ActiveTime(is) ==
    IF is = {} THEN 0
    ELSE LET i == CHOOSE x \in is : TRUE
         IN (trace[i + 1].ms - trace[i].ms) + ActiveTime(is \ {i})

\* k was active in one unbroken period
OnePeriod(k) ==
    \A i, j \in PressesOf(k) : \A m \in i..j : m \in PressesOf(k)

\* C9 as stated: in a finished run of single-letter keys at strictly increasing
\* times, the sum of every key but the last active one is the last time it was
\* active minus the first time it became active, also when other keys were active
\* in between.
C9_LastMinusFirst ==
    Summed =>
        \A k \in KeysButLast :
            /\ k \in DOMAIN stroke_summary_sums
            /\ stroke_summary_sums[k] = LastActiveMs(k) - FirstActiveMs(k)

\* C9 as amended: the sum of every key but the last active one is the total length
\* of the periods in which it was the active key, each from a pass of the recording
\* loop with that key to the next pass; that is the last time minus the first time
\* exactly when the key was active in one unbroken period.  A key that was only
\* the start key has no sum.
C9_SumOfActivePeriods ==
    Summed =>
        /\ \A k \in KeysButLast :
               /\ k \in DOMAIN stroke_summary_sums
               /\ stroke_summary_sums[k] = ActiveTime(PressesOf(k))
               /\ OnePeriod(k) <=>
                      stroke_summary_sums[k] = LastActiveMs(k) - FirstActiveMs(k)
        /\ \A k \in ValidKeys :
               PressesOf(k) = {} => k \notin DOMAIN stroke_summary_sums

\* 'b' at 0, 'a' at 500, 'b' at 1000, 'a' at 1500, 'b' at 2000, 'P' at 2500: a was
\* active from 500 to 1000 and from 1500 to 2000
C9_Witness ==
    /\ Summed
    /\ trace = <<[ms |-> 0, key |-> Key_b], [ms |-> 500, key |-> Key_a],
                 [ms |-> 1000, key |-> Key_b], [ms |-> 1500, key |-> Key_a],
                 [ms |-> 2000, key |-> Key_b], [ms |-> 2500, key |-> Key_P]>>
    /\ stroke_summary_sums[Key_a] = 1000

-----------------------------------------------------------------------------
(* C10 *)

\* C10 as stated: whatever files are added to or removed from the directory between
\* two invocations, write_csv never writes over a file that exists.
C10_NeverOverwrites == overwritten = {}

\* C10 as amended: write_csv never writes over a file that exists as long as, between
\* the invocations, nobody removes a file *_ethoc.csv and nobody else adds a file
\* named like an output, <name>_<digits>_ethoc.csv or <name>_<digits>_summary.csv;
\* other files whose name starts with base_name may come and go.
C10_NoOverwriteUntampered == ~tampered => overwritten = {}

\* three invocations and a file run_ethoc.csv of somebody else: seven files, none
\* written twice
C10_Witness ==
    /\ pc = "exit"
    /\ runs = 3
    /\ ~tampered
    /\ File_run_ethoc \in files
    /\ Cardinality(files) = 7
    /\ overwritten = {}

-----------------------------------------------------------------------------
(* C11 *)

\* exactly two digits, a colon, two digits, a colon, two digits
IsHMS(s) ==
    /\ Len(s) = 8
    /\ \A i \in {1, 2, 4, 5, 7, 8} : s[i] \in Digit
    /\ s[3] = ":" /\ s[6] = ":"
\* a plain non-negative integer
IsPlainInt(s) == s # <<>> /\ \A i \in 1..Len(s) : s[i] \in Digit
\* --observation_time was given and has neither form
Malformed ==
    argv_time.kind = "str" /\ ~IsHMS(argv_time.val) /\ ~IsPlainInt(argv_time.val)

\* C11: when the string given as --observation_time is neither HH:MM:SS (exactly two
\* digits, colon, two digits, colon, two digits) nor a plain non-negative integer, the
\* script never gets as far as main(): no key is consumed and no file is written;
\* so only strings of those two forms are accepted.
C11_ConfigErrors ==
    Malformed =>
        /\ pc \in {"parse", "count", "determine", "usage_error", "crashed"}
        /\ trace = <<>>
        /\ written = <<>>

\* What the code does: the pattern of line 65 is matched at the start of the string
\* only and int() drops blanks, so HH:MM:SS followed by digits or blanks is accepted;
\* the empty string passes line 106 and makes int() raise at line 122.
C11_CodeBehaviour ==
    /\ argv_time \in {StrVal(Str_bad), StrVal(Str_minus1), StrVal(Str_hms3_more)} =>
           pc \in {"parse", "usage_error"}
    /\ argv_time = StrVal(Str_empty) => pc \in {"parse", "count", "determine", "crashed"}
    /\ (argv_time = StrVal(Str_hms030) /\ pc \notin {"parse", "count", "determine"}) =>
           OBSERVATION_TIME = 30
    /\ (argv_time = StrVal(Str_hms3_blank) /\ pc \notin {"parse", "count", "determine"}) =>
           OBSERVATION_TIME = 3

-----------------------------------------------------------------------------
(* C12 *)

\* the orders in which a list of n deltas can be summed
Perms(n) == {f \in [1..n -> 1..n] : \A i, j \in 1..n : f[i] = f[j] => i = j}
\* the list in the order f
Permuted(list, f) == [i \in 1..Len(list) |-> list[f[i]]]

\* C12: once the sums are computed, the summary has an entry for exactly the keys
\* that hold a list of deltas, the empty key excepted, and the entry is the sum of
\* the list, in whatever order the list is summed, a negative time-out correction
\* included; the empty key is no key of the summary.  The keys that hold a list are
\* those that were the active key (key before the pass) at a pass of the recording
\* loop.
C12_Finalize ==
    /\ [](Summed =>
             /\ DOMAIN stroke_summary_sums = DOMAIN stroke_summary \ {<<>>}
             /\ \A k \in DOMAIN stroke_summary_sums :
                    \A f \in Perms(Len(stroke_summary[k])) :
                        stroke_summary_sums[k] = SumSeq(Permuted(stroke_summary[k], f)))
    /\ [][KeyPolled => key \in DOMAIN stroke_summary']_vars
    /\ [][DOMAIN stroke_summary' \subseteq
             DOMAIN stroke_summary \cup (IF KeyPolled THEN {key} ELSE {})]_vars

\* the lists [1500] of the empty key and [2500, -1000] of b: the summary is {b: 1500}
C12_Witness ==
    /\ pc = "exit"
    /\ stroke_summary = (<<>> :> <<1500>> @@ Key_b :> <<2500, -1000>>)
    /\ stroke_summary_sums = (Key_b :> 1500)

-----------------------------------------------------------------------------
(* C13 *)

\* the number of deltas the summary holds
DeltaCount(summary) == CountDeltas(summary, DOMAIN summary)

\* C13: a pass of the recording loop with a key that is no single character of
\* [A-Za-z0-9] never ends the recording, whatever the elapsed time and the
\* observation time: main() stays in the loop, no terminal label is logged and no
\* time-out correction is appended (the summary gains one delta at most); the
\* recording ends only on a pass with a single character of [A-Za-z0-9].
C13_InvalidKeyNeverStops ==
    /\ [][(KeyPolled /\ ~SingleAlnum(PolledKey)) =>
             /\ pc' = "recording"
             /\ \A t \in DOMAIN strokes' : ~IsTerminalLabel(strokes'[t])
             /\ DeltaCount(stroke_summary') <= DeltaCount(stroke_summary) + 1]_vars
    /\ [][(pc = "recording" /\ pc' # "recording") =>
             (KeyPolled /\ SingleAlnum(PolledKey))]_vars

\* What the code does with '!' (it does not match line 177): the pass goes on after
\* the notice and ends the recording by time-out when the observation time is over.
C13_CodeBehaviour ==
    [][(KeyPolled /\ PolledKey = Key_bang /\ OBSERVATION_TIME > 0
          /\ PolledMs >= OBSERVATION_TIME * 1000) =>
          /\ pc' = "flash"
          /\ IsTimeoutLabel(strokes'[PolledMs])
          /\ DeltaCount(stroke_summary') = DeltaCount(stroke_summary) + 2]_vars

-----------------------------------------------------------------------------
(* C14 *)

\* the two files of the first run named run with a padding of 4
File_run_0000_ethoc == Str_run \o <<"_","0","0","0","0">> \o Str_ethoc \o Str_csv
File_run_0000_summary == Str_run \o <<"_","0","0","0","0">> \o Str_summary \o Str_csv

\* C14: the start loop is left only for the recording loop and the recording loop
\* only by returning from main(); the recording loop is entered only from the start
\* loop and main() returns only from the recording loop; once main() has returned it
\* stays so, no key is consumed and neither the event log nor the lists of deltas
\* change; no file is written before main() has returned, and then the event file is
\* written first and the summary file second, once each.
C14_StateOrder ==
    /\ [][pc = "start" => pc' \in {"start", "recording"}]_vars
    /\ [][pc = "recording" => pc' \in {"recording", "flash"}]_vars
    /\ [][pc' = "recording" => pc \in {"start", "recording"}]_vars
    /\ [][Terminated' => (pc = "recording" \/ Terminated)]_vars
    /\ [][Terminated =>
             /\ trace' = trace
             /\ strokes' = strokes
             /\ stroke_summary' = stroke_summary]_vars
    /\ [](~Terminated => written = <<>>)
    /\ [](written \in {<<>>, <<File_run_0000_ethoc>>,
                        <<File_run_0000_ethoc, File_run_0000_summary>>})
    /\ [](pc = "exit" => written = <<File_run_0000_ethoc, File_run_0000_summary>>)

\* a run ended by time-out has written its two files
C14_Witness ==
    /\ pc = "exit"
    /\ TimeoutLogged
    /\ Len(trace) = 3
    /\ written = <<File_run_0000_ethoc, File_run_0000_summary>>
    /\ files = {File_run_0000_ethoc, File_run_0000_summary}

-----------------------------------------------------------------------------
(* C15 *)

\* this step is a call of getkey() that found no key, the call before it having
\* found one or there having been none
EmptyPoll == polled # "curses.error" /\ polled' = "curses.error"

\* C15: a call of getkey() that finds no key changes nothing, in the start loop and
\* in the recording loop: the loop stays the same, and starttime, key, millis, the
\* event log, the lists of deltas and the key presses consumed are as before; the
\* script does not end with the error, and the loop may poll again.
C15_EmptyPollNoChange ==
    /\ [][EmptyPoll =>
             /\ pc \in {"start", "recording"}
             /\ pc' = pc
             /\ starttime' = starttime
             /\ key' = key
             /\ millis' = millis
             /\ strokes' = strokes
             /\ stroke_summary' = stroke_summary
             /\ trace' = trace
             /\ now' = now]_vars
    /\ [](polled = "curses.error" /\ pc = "start" => ENABLED StartNoKey)
    /\ [](polled = "curses.error" /\ pc = "recording" => ENABLED RecordNoKey)

\* 'a' at 0, 'b' at 1500, then a poll without a key: b is still the active key
C15_Witness ==
    /\ pc = "recording"
    /\ polled = "curses.error"
    /\ trace = <<[ms |-> 0, key |-> Key_a], [ms |-> 1500, key |-> Key_b]>>
    /\ key = Key_b
    /\ millis = 1500
    /\ strokes = (1500 :> Key_b)

-----------------------------------------------------------------------------
(* C16 *)

\* the elapsed times of the passes of the recording loop
PassTimes == {trace[i].ms : i \in 2..Len(trace)}
\* this pass comes at the elapsed time of the pass before it, whose key matched
SameMsAsKeyBefore == Len(trace) >= 2 /\ PolledMs = millis /\ Match(LastPress.key)

\* C16: the event log holds one row for every elapsed time at which the recording
\* loop consumed a key, and a pass writes its label over the row of its elapsed time,
\* all other rows staying as they are: the terminal label when the pass ends the
\* recording, else the key when it matches.  So of two passes at the same
\* millisecond the label of the second remains; a pass that ends the recording at the
\* millisecond of the key before it puts the terminal label where that key stood, and
\* the key has its list of deltas and, in the end, its entry in the summary.
C16_LaterWriteWins ==
    /\ [](DOMAIN strokes = PassTimes)
    /\ [][KeyPolled =>
             /\ RowSet(PolledMs, strokes'[PolledMs])
             /\ Terminated' => IsTerminalLabel(strokes'[PolledMs])
             /\ (~Terminated' /\ Match(PolledKey)) => strokes'[PolledMs] = PolledKey]_vars
    /\ [][(KeyPolled /\ Terminated' /\ SameMsAsKeyBefore) =>
             /\ strokes[PolledMs] = LastPress.key
             /\ IsTerminalLabel(strokes'[PolledMs])
             /\ Cardinality(DOMAIN strokes') = Cardinality(DOMAIN strokes)
             /\ LastPress.key \in DOMAIN stroke_summary']_vars
    /\ [](( /\ Summed
            /\ Len(trace) >= 3
            /\ trace[Len(trace) - 1].ms = LastPress.ms
            /\ Match(trace[Len(trace) - 1].key)) =>
               /\ trace[Len(trace) - 1].key \in DOMAIN stroke_summary_sums
               /\ IsTerminalLabel(strokes[LastPress.ms]))

\* What the code does besides: a pass at an elapsed time at which the observation
\* time is over ends the recording, so the time-out label never comes at the
\* millisecond of a pass before it.
C16_TimeoutAloneAtItsMs ==
    [][(KeyPolled /\ IsTimeoutLabel(strokes'[PolledMs])) => PolledMs \notin PassTimes]_vars

\* 'a' at 0, 'b' at 500 and 'P' in the same millisecond: the row of b is gone, its
\* entry in the summary is there
C16_Witness ==
    /\ pc = "exit"
    /\ trace = <<[ms |-> 0, key |-> Key_a], [ms |-> 500, key |-> Key_b],
                 [ms |-> 500, key |-> Key_P]>>
    /\ strokes = (500 :> ManualExit)
    /\ stroke_summary_sums = (Key_b :> 0)

-----------------------------------------------------------------------------
(* C17 *)

RECURSIVE SumOver(_, _)
\* the sum of the deltas the lists of these keys hold
SumOver(summary, ks) ==
    IF ks = {} THEN 0
    ELSE LET k == CHOOSE x \in ks : TRUE
         IN SumSeq(summary[k]) + SumOver(summary, ks \ {k})
\* the sum of all deltas, those of the empty key included
TotalDeltas == SumOver(stroke_summary, DOMAIN stroke_summary)

\* C17: while main() records, the deltas of all keys, the empty key included, sum
\* to millis; after a manual stop they sum to the elapsed time of the stop key, and
\* after a time-out with OBSERVATION_TIME = N to N * 1000; also when keys do not
\* match and when the clock was set back.
C17_Telescoping ==
    /\ pc = "recording" => TotalDeltas = millis
    /\ (Terminated /\ ManualExitLogged) =>
           (TotalDeltas = LastPress.ms /\ LastPress.key = Key_P)
    /\ (Terminated /\ TimeoutLogged) => TotalDeltas = OBSERVATION_TIME * 1000

\* time-out at 4000 ms with an observation time of 3 seconds, a key that does not
\* match before it and the clock set back in between: the deltas sum to 3000
C17_Witness ==
    /\ Terminated
    /\ TimeoutLogged
    /\ OBSERVATION_TIME = 3
    /\ ~monotone
    /\ Len(trace) = 3
    /\ trace[2].key = Key_bang
    /\ millis = 4000
    /\ TotalDeltas = 3000

-----------------------------------------------------------------------------
(* C18 *)

\* the elapsed times of the rows that hold a terminal label
TerminalRows == {t \in DOMAIN strokes : IsTerminalLabel(strokes[t])}

\* C18: before main() has returned the event log holds no terminal label; once it
\* has returned the log holds exactly one, and, the clock never having been set
\* back, no row of the log has a greater elapsed time than that one.
C18_TerminalMarker ==
    /\ ~Terminated => TerminalRows = {}
    /\ Terminated => Cardinality(TerminalRows) = 1
    /\ (Terminated /\ monotone) =>
           \A t \in TerminalRows : \A u \in DOMAIN strokes : u <= t

\* the clock never set back, the row 1500: b and the time-out label at 3000 ms
C18_Witness ==
    /\ Terminated
    /\ monotone
    /\ OBSERVATION_TIME = 3
    /\ DOMAIN strokes = {1500, 3000}
    /\ strokes[1500] = Key_b
    /\ TerminalRows = {3000}

\* with the clock set back, the terminal label need not be the last row
C18_ClockSetBack ==
    /\ Terminated
    /\ ~monotone
    /\ \E t \in TerminalRows : \E u \in DOMAIN strokes : u > t

-----------------------------------------------------------------------------
(* C19 *)

\* the delta a pass of the recording loop appends first to the list of the key that
\* was active
AppendedDelta == stroke_summary'[key][Len(DeltasOf(stroke_summary, key)) + 1]

\* C19: the clock never having been set back, the delta a pass of the recording loop
\* appends for the elapsed time is not negative; a negative delta in a list is the
\* time-out correction, the last delta of its list in a run ended by time-out; and
\* every sum of the summary is not negative and, in a run ended by time-out with
\* OBSERVATION_TIME = N > 0, not greater than N * 1000.
C19_NonNegativeTotals ==
    /\ [][(KeyPolled /\ monotone) =>
             (AppendedDelta = PolledMs - millis /\ AppendedDelta >= 0)]_vars
    /\ [](monotone =>
             \A k \in DOMAIN stroke_summary :
                 \A i \in 1..Len(stroke_summary[k]) :
                     stroke_summary[k][i] < 0 =>
                         /\ TimeoutLogged
                         /\ i = Len(stroke_summary[k])
                         /\ stroke_summary[k][i] = -(millis - OBSERVATION_TIME * 1000))
    /\ []((Summed /\ monotone) =>
             \A k \in DOMAIN stroke_summary_sums :
                 /\ stroke_summary_sums[k] >= 0
                 /\ TimeoutLogged =>
                        (OBSERVATION_TIME > 0
                         /\ stroke_summary_sums[k] <= OBSERVATION_TIME * 1000))

\* 'a' at 0, 'b' at 1500, 'a' at 4000 with an observation time of 3 seconds and the
\* clock never set back: the list of b ends with the correction -1000, its sum is 1500
C19_Witness ==
    /\ pc = "exit"
    /\ monotone
    /\ OBSERVATION_TIME = 3
    /\ LastPress = [ms |-> 4000, key |-> Key_a]
    /\ DeltasOf(stroke_summary, Key_b) = <<2500, -1000>>
    /\ stroke_summary_sums[Key_b] = 1500

\* with the clock set back, a delta other than the correction is negative
C19_ClockSetBack ==
    /\ ~monotone
    /\ ~TimeoutLogged
    /\ \E k \in DOMAIN stroke_summary :
           \E i \in 1..Len(stroke_summary[k]) : stroke_summary[k][i] < 0

====
